---- MODULE Spec2Model ----
(***************************************************************************)
(* Model of the evolvia input services:                                    *)
(*   - RabbitMQPublisher of input-service (connect, _ensure_connection,    *)
(*     _close_connection, publish_skill_event, close, health_check) and    *)
(*     of manual-input-service (connect, publish_skill_event, close);      *)
(*   - PowerPointExtractor of input-service (extract_content and the       *)
(*     legacy .ppt fallback chain).                                        *)
(* Every broker / file-system / subprocess call is one step whose outcome  *)
(* (success, or the kind of failure) is chosen nondeterministically.       *)
(***************************************************************************)
EXTENDS Integers, Sequences, FiniteSets, TLC

(***************************************************************************)
(* Program constants of RabbitMQPublisher.__init__                         *)
(***************************************************************************)
max_retries == 3
retry_delay == 1

(* The threads of control that may call into the one shared publisher.    *)
Threads == {1, 2}

(* A handle attribute: None, or an object whose is_closed flag is False    *)
(* ("open") or True ("closed").                                            *)
Handles == {"None", "open", "closed"}

(* How a failing broker operation leaves the is_closed flags:              *)
(* the transport was lost, the channel was closed, or neither.             *)
FailKinds == {"conn_lost", "chan_closed", "other"}

VARIABLES
    variant,      \* which service runs: "input" or "manual"
    connection,   \* self.connection
    channel,      \* self.channel
    th,           \* per thread: control point and locals of the running call
    ex,           \* extract_content: control point and locals of the call
    up            \* upload_powerpoint: control point and locals of the request

pubvars == <<variant, connection, channel, th>>

xvars == <<ex>>

upvars == <<up>>

IdleThread ==
    [ pc        |-> "idle",
      op        |-> "none",     \* the operation running / last run
      ret       |-> "none",     \* its outcome: "true","false","ok","raised"
      attempt   |-> 0,          \* loop variable of publish_skill_event
      serial    |-> TRUE,       \* can json.dumps serialize the payload
      ensCtx    |-> "none",     \* caller of _ensure_connection
      conCtx    |-> "none",     \* where connect() was called from
      clsCtx    |-> "none",     \* caller of _close_connection
      nEnsure   |-> 0,          \* _ensure_connection calls of this call
      nConnect  |-> 0,          \* connect() calls of this call
      nPublish  |-> 0,          \* basic_publish calls of this call
      nPubOk    |-> 0,          \* basic_publish calls that returned
      nTeardown |-> 0,          \* _close_connection calls of the handler
      nReopen   |-> 0,          \* attempts begun Disconnected after a teardown
      waits     |-> << >>,      \* the time.sleep arguments, in order
      failLog   |-> << >>,      \* per failed attempt, the step that raised
      dirty     |-> FALSE,      \* an attempt failed, no teardown followed yet
      ensEntry  |-> << >>,      \* the handles the last _ensure_connection met
      ensProbe  |-> "none",     \* its probe (line 59): "ok" or "failed"
      ensConnects |-> 0,        \* the connect() calls it made
      opened    |-> {},         \* handles assigned by connect() and still held
      declared  |-> FALSE,      \* the exchange was declared on the held channel
      fresh     |-> {},         \* handles assigned by a connect() of this call
      good      |-> FALSE,      \* during this call the broker accepts every
                                \* new connection, declaration and publish
      prevClose |-> FALSE,      \* the call before this one was close()
      closeOps  |-> << >>,      \* steps of the last _close_connection: the
                                \* handle's close() called, or skipped (guard)
      closeErrs |-> {},         \* its steps whose close() raised
      envelopes |-> << >> ]     \* the payloads handed to basic_publish

OffThread == [IdleThread EXCEPT !.pc = "off"]

(***************************************************************************)
(* Pure decisions of the code                                              *)
(***************************************************************************)

(* variant of NeedsConnect: only the connection handle is looked at *)
NeedsConnectIgnoresChannel(conn, chan) == conn = "None" \/ conn = "closed"

(* _ensure_connection, the condition of its if (lines 51-54) *)
NeedsConnect(conn, chan) ==
    conn = "None" \/ conn = "closed" \/ chan = "None" \/ chan = "closed"

(* variant of HasRetry: a failed attempt is never retried *)
HasRetryNever(attempt) == FALSE

(* publish_skill_event: `attempt < self.max_retries - 1` (line 145) *)
HasRetry(attempt) == attempt < max_retries - 1

(* variant of RetryDelay: a doubling (geometric) backoff *)
RetryDelayDoubling(attempt) == retry_delay * 2 ^ (attempt + 1)

(* publish_skill_event: `self.retry_delay * (attempt + 1)` (line 150) *)
RetryDelay(attempt) == retry_delay * (attempt + 1)

RECURSIVE SumSeq(_)
SumSeq(q) == IF q = << >> THEN 0 ELSE Head(q) + SumSeq(Tail(q))

(* datetime.now() inside a call, in seconds since the call began: the      *)
(* time slept so far (the steps themselves are taken to cost no time)      *)
Now(me) == SumSeq(me.waits)

(* lines 93-119: the fields of the payload that are read from the clock;   *)
(* source_id ends with int(datetime.now().timestamp())                     *)
Envelope(me) == [timestamp |-> Now(me), source_id |-> Now(me)]

(* manual-input-service publish_skill_event, the condition of line 44 *)
ManualNeedsConnect(conn) == conn = "None" \/ conn = "closed"

(* is_closed flags after an operation failed with the given kind *)
FailConn(kind, c) == IF kind = "conn_lost" /\ c # "None" THEN "closed" ELSE c
FailChan(kind, ch) ==
    IF kind \in {"conn_lost", "chan_closed"} /\ ch # "None" THEN "closed" ELSE ch

Upd(t, r) == th' = [th EXCEPT ![t] = r]

(***************************************************************************)
(* Where control goes when a callee returns or raises                      *)
(***************************************************************************)

(* a publish attempt raised inside the try of publish_skill_event:         *)
(* input-service enters `except Exception` (line 142); manual-input-service*)
(* logs and returns False (lines 89-91).                                   *)
AttemptRaised(me, site) ==
    IF me.op = "m_publish"
    THEN [me EXCEPT !.pc = "idle", !.ret = "false", !.dirty = TRUE,
                    !.failLog = Append(@, site)]
    ELSE [me EXCEPT !.pc = "pub_handler", !.dirty = TRUE,
                    !.failLog = Append(@, site)]

(* _ensure_connection returned normally to publish_skill_event (line 90)   *)
(* or to health_check (lines 170-171)                                      *)
EnsureReturned(me) ==
    IF me.ensCtx = "pub"
    THEN [me EXCEPT !.pc = "pub_serialize"]
    ELSE [me EXCEPT !.pc = "idle", !.ret = "true"]

(* variant of EnsureRaised: health_check lets the exception through *)
EnsureRaisedPropagates(me, site) ==
    IF me.ensCtx = "pub"
    THEN AttemptRaised(me, site)
    ELSE [me EXCEPT !.pc = "idle", !.ret = "raised",
                    !.failLog = Append(@, site)]

(* _ensure_connection raised: into the except of publish_skill_event       *)
(* (line 142) or of health_check (lines 172-174), which returns False      *)
EnsureRaised(me, site) ==
    IF me.ensCtx = "pub"
    THEN AttemptRaised(me, site)
    ELSE [me EXCEPT !.pc = "idle", !.ret = "false",
                    !.failLog = Append(@, site)]

(* connect() returned normally *)
ConnectReturned(me) ==
    CASE me.conCtx \in {"try", "except"} -> EnsureReturned(me)
      [] me.conCtx = "m_pub"             -> [me EXCEPT !.pc = "pub_serialize"]
      [] OTHER                           -> [me EXCEPT !.pc = "idle", !.ret = "ok"]

(* variant of ConnectRaised: connect() logs its exception and returns *)
ConnectRaisedSwallowed(me, site) == ConnectReturned(me)

(* connect() re-raised (lines 44-46).  Called from the try block of        *)
(* _ensure_connection (line 56) the exception is caught by its own         *)
(* `except Exception` (line 60), which calls connect() again (line 62);    *)
(* called from that except block it leaves _ensure_connection.             *)
ConnectRaised(me, site) ==
    CASE me.conCtx = "try" ->
            [me EXCEPT !.pc = "con_begin", !.conCtx = "except"]
      [] me.conCtx = "except" -> EnsureRaised(me, site)
      [] me.conCtx = "m_pub"  -> AttemptRaised(me, site)
      [] OTHER -> [me EXCEPT !.pc = "idle", !.ret = "raised"]

(* _close_connection returned (it never raises): back in connect (line 27),*)
(* in the handler of publish_skill_event (line 150) or in close (line 163) *)
CloseReturned(me) ==
    CASE me.clsCtx = "connect" -> [me EXCEPT !.pc = "con_open", !.dirty = FALSE]
      [] me.clsCtx = "handler" -> [me EXCEPT !.pc = "pub_sleep", !.dirty = FALSE]
      [] OTHER -> [me EXCEPT !.pc = "idle", !.ret = "ok", !.dirty = FALSE]

(* variant of PublishReturned: the `return True` is missing, so the for    *)
(* loop goes on to its next iteration (or ends and returns False)          *)
PublishReturnedNoReturn(me) ==
    IF HasRetry(me.attempt)
    THEN [me EXCEPT !.pc = "pub_attempt", !.attempt = @ + 1,
                    !.nPubOk = @ + 1, !.dirty = FALSE]
    ELSE [me EXCEPT !.pc = "idle", !.ret = "false", !.nPubOk = @ + 1,
                    !.dirty = FALSE]

(* basic_publish returned: `return True` (line 140) *)
PublishReturned(me) ==
    [me EXCEPT !.pc = "idle", !.ret = "true", !.nPubOk = @ + 1,
               !.dirty = FALSE]

(* variant of HandlerNext: the last attempt re-raises instead of           *)
(* returning False                                                         *)
HandlerNextReraise(me) ==
    IF HasRetry(me.attempt)
    THEN [me EXCEPT !.pc = "cls_chan", !.clsCtx = "handler",
                    !.nTeardown = @ + 1]
    ELSE [me EXCEPT !.pc = "idle", !.ret = "raised"]

(* variant of HandlerNext: the retry sleeps without _close_connection *)
HandlerNextNoTeardown(me) ==
    IF HasRetry(me.attempt)
    THEN [me EXCEPT !.pc = "pub_sleep"]
    ELSE [me EXCEPT !.pc = "idle", !.ret = "false"]

(* the except block of publish_skill_event (lines 142-154) *)
HandlerNext(me) ==
    IF HasRetry(me.attempt)
    THEN [me EXCEPT !.pc = "cls_chan", !.clsCtx = "handler",
                    !.nTeardown = @ + 1]
    ELSE [me EXCEPT !.pc = "idle", !.ret = "false"]

(* time.sleep (line 150) and the next iteration of the for loop (line 87) *)
SleepNext(me) ==
    [me EXCEPT !.pc = "pub_attempt",
               !.waits = Append(@, RetryDelay(me.attempt)),
               !.attempt = @ + 1]

(***************************************************************************)
(* Calls into the input-service publisher                                  *)
(***************************************************************************)

(* a call starts with fresh locals *)
NewCall(t, o, p) ==
    [IdleThread EXCEPT !.op = o, !.pc = p, !.dirty = th[t].dirty,
                       !.opened = th[t].opened,
                       !.declared = th[t].declared,
                       !.prevClose = (th[t].op = "close")]

(* rabbitmq_publisher.connect() as called by startup_event *)
StartConnect(t) ==
    /\ variant = "input"
    /\ th[t].pc = "idle"
    /\ Upd(t, [NewCall(t, "connect", "con_begin") EXCEPT !.conCtx = "startup"])
    /\ UNCHANGED <<variant, connection, channel>>
    /\ UNCHANGED <<xvars, upvars>>

(* publish_skill_event is entered; attempt = 0 (line 87) *)
StartPublish(t) ==
    /\ variant = "input"
    /\ th[t].pc = "idle"
    /\ \E ser \in BOOLEAN :
          Upd(t, [NewCall(t, "publish", "pub_attempt") EXCEPT !.serial = ser])
    /\ UNCHANGED <<variant, connection, channel>>
    /\ UNCHANGED <<xvars, upvars>>

(* health_check is entered and calls _ensure_connection (line 170) *)
StartHealth(t) ==
    /\ variant = "input"
    /\ th[t].pc = "idle"
    /\ Upd(t, [NewCall(t, "health", "ens_check") EXCEPT
                   !.ensCtx = "health", !.nEnsure = 1])
    /\ UNCHANGED <<variant, connection, channel>>
    /\ UNCHANGED <<xvars, upvars>>

(* close is entered and calls _close_connection (line 162) *)
StartClose(t) ==
    /\ variant = "input"
    /\ th[t].pc = "idle"
    /\ Upd(t, [NewCall(t, "close", "cls_chan") EXCEPT !.clsCtx = "close"])
    /\ UNCHANGED <<variant, connection, channel>>
    /\ UNCHANGED <<xvars, upvars>>

(***************************************************************************)
(* publish_skill_event (input-service)                                     *)
(***************************************************************************)

(* line 90: the attempt calls _ensure_connection *)
PubAttempt(t) ==
    /\ th[t].pc = "pub_attempt"
    /\ Upd(t, [th[t] EXCEPT !.pc = "ens_check", !.ensCtx = "pub",
                            !.nEnsure = @ + 1])
    /\ UNCHANGED <<variant, connection, channel>>
    /\ UNCHANGED <<xvars, upvars>>

(* lines 93-119 and 125: the payload is built and json.dumps'ed; both      *)
(* variants (manual-input-service lines 48-67, 73)                         *)
PubSerialize(t) ==
    /\ th[t].pc = "pub_serialize"
    /\ IF th[t].serial
       THEN Upd(t, [th[t] EXCEPT !.pc = "pub_publish",
                                 !.envelopes = Append(@, Envelope(th[t]))])
       ELSE Upd(t, AttemptRaised(th[t], "serialize"))
    /\ UNCHANGED <<variant, connection, channel>>
    /\ UNCHANGED <<xvars, upvars>>

(* line 122: self.channel.basic_publish returns *)
PubPublishOk(t) ==
    /\ th[t].pc = "pub_publish"
    /\ connection = "open" /\ channel = "open"
    /\ Upd(t, PublishReturned([th[t] EXCEPT !.nPublish = @ + 1]))
    /\ UNCHANGED <<variant, connection, channel>>
    /\ UNCHANGED <<xvars, upvars>>

(* line 122: self.channel.basic_publish raises (also AttributeError when   *)
(* self.channel is None, and pika's wrong-state error on a closed channel) *)
PubPublishFail(t) ==
    /\ th[t].pc = "pub_publish"
    /\ \E kind \in (IF channel = "open" THEN FailKinds ELSE {"other"}) :
          /\ connection' = FailConn(kind, connection)
          /\ channel' = FailChan(kind, channel)
    /\ Upd(t, AttemptRaised([th[t] EXCEPT !.nPublish = @ + 1], "publish"))
    /\ UNCHANGED variant
    /\ UNCHANGED <<xvars, upvars>>

(* lines 142-154: retry after a teardown, or return False *)
PubHandler(t) ==
    /\ th[t].pc = "pub_handler"
    /\ Upd(t, HandlerNext(th[t]))
    /\ UNCHANGED <<variant, connection, channel>>
    /\ UNCHANGED <<xvars, upvars>>

(* line 150: time.sleep, then the next attempt *)
PubSleep(t) ==
    /\ th[t].pc = "pub_sleep"
    /\ Upd(t, SleepNext(th[t]))
    /\ UNCHANGED <<variant, connection, channel>>
    /\ UNCHANGED <<xvars, upvars>>

(***************************************************************************)
(* _ensure_connection (lines 48-62)                                        *)
(***************************************************************************)

(* lines 51-56: handles absent or closed -> connect(); else the probe *)
EnsCheck(t) ==
    /\ th[t].pc = "ens_check"
    /\ LET me == [th[t] EXCEPT !.ensEntry = <<connection, channel>>,
                                !.ensProbe = "none", !.ensConnects = 0]
       IN  IF NeedsConnect(connection, channel)
           THEN Upd(t, [me EXCEPT
                          !.pc = "con_begin", !.conCtx = "try",
                          !.nReopen = IF th[t].nTeardown > th[t].nReopen
                                         /\ connection = "None"
                                         /\ channel = "None"
                                      THEN @ + 1 ELSE @])
           ELSE Upd(t, [me EXCEPT !.pc = "ens_probe"])
    /\ UNCHANGED <<variant, connection, channel>>
    /\ UNCHANGED <<xvars, upvars>>

(* line 59: process_data_events(time_limit=0) returns *)
EnsProbeOk(t) ==
    /\ th[t].pc = "ens_probe"
    /\ connection = "open"
    /\ Upd(t, EnsureReturned([th[t] EXCEPT !.ensProbe = "ok"]))
    /\ UNCHANGED <<variant, connection, channel>>
    /\ UNCHANGED <<xvars, upvars>>

(* line 59 raises; lines 60-62: the except block calls connect() *)
EnsProbeFail(t) ==
    /\ th[t].pc = "ens_probe"
    /\ \E kind \in FailKinds :
          /\ connection' = FailConn(kind, connection)
          /\ channel' = FailChan(kind, channel)
    /\ Upd(t, [th[t] EXCEPT !.pc = "con_begin", !.conCtx = "except",
                            !.ensProbe = "failed"])
    /\ UNCHANGED variant
    /\ UNCHANGED <<xvars, upvars>>

(***************************************************************************)
(* connect (input-service lines 19-46, manual-input-service lines 16-36)   *)
(***************************************************************************)

(* line 25: connect() first calls _close_connection (input-service only) *)
ConBegin(t) ==
    /\ th[t].pc = "con_begin"
    /\ Upd(t, [th[t] EXCEPT !.pc = "cls_chan", !.clsCtx = "connect",
                            !.nConnect = @ + 1, !.ensConnects = @ + 1])
    /\ UNCHANGED <<variant, connection, channel>>
    /\ UNCHANGED <<xvars, upvars>>

(* line 32 (manual 20): pika.BlockingConnection(parameters) returns *)
ConOpenOk(t) ==
    /\ th[t].pc = "con_open"
    /\ connection' = "open"
    /\ Upd(t, [th[t] EXCEPT !.pc = "con_channel",
                            !.opened = @ \cup {"connection"},
                            !.fresh = @ \cup {"connection"}])
    /\ UNCHANGED <<variant, channel>>
    /\ UNCHANGED <<xvars, upvars>>

(* line 32 raises: self.connection is not assigned *)
ConOpenFail(t) ==
    /\ th[t].pc = "con_open"
    /\ Upd(t, ConnectRaised(th[t], "connect"))
    /\ UNCHANGED <<variant, connection, channel>>
    /\ UNCHANGED <<xvars, upvars>>

(* line 33 (manual 23): self.connection.channel() returns *)
ConChannelOk(t) ==
    /\ th[t].pc = "con_channel"
    /\ connection = "open"
    /\ channel' = "open"
    /\ Upd(t, [th[t] EXCEPT !.pc = "con_declare",
                            !.opened = @ \cup {"channel"},
                            !.fresh = @ \cup {"channel"},
                            !.declared = FALSE])
    /\ UNCHANGED <<variant, connection>>
    /\ UNCHANGED <<xvars, upvars>>

(* line 33 raises: self.channel is not assigned *)
ConChannelFail(t) ==
    /\ th[t].pc = "con_channel"
    /\ \E kind \in {"conn_lost", "other"} :
          connection' = FailConn(kind, connection)
    /\ Upd(t, ConnectRaised(th[t], "channel"))
    /\ UNCHANGED <<variant, channel>>
    /\ UNCHANGED <<xvars, upvars>>

(* lines 36-40 (manual 26-30): exchange_declare returns; connect returns *)
ConDeclareOk(t) ==
    /\ th[t].pc = "con_declare"
    /\ connection = "open" /\ channel = "open"
    /\ Upd(t, ConnectReturned([th[t] EXCEPT !.declared = TRUE]))
    /\ UNCHANGED <<variant, connection, channel>>
    /\ UNCHANGED <<xvars, upvars>>

(* lines 36-40 raise *)
ConDeclareFail(t) ==
    /\ th[t].pc = "con_declare"
    /\ \E kind \in FailKinds :
          /\ connection' = FailConn(kind, connection)
          /\ channel' = FailChan(kind, channel)
    /\ Upd(t, ConnectRaised(th[t], "declare"))
    /\ UNCHANGED variant
    /\ UNCHANGED <<xvars, upvars>>

(***************************************************************************)
(* _close_connection (lines 64-79)                                         *)
(***************************************************************************)

(* variant of ClsChannel: one try block around both steps, an error of    *)
(* channel.close() goes straight to the clearing of the handles            *)
ClsChannelErrorSkipsConnection(t) ==
    /\ th[t].pc = "cls_chan"
    /\ IF channel = "open"
       THEN \/ /\ channel' = "closed"
               /\ UNCHANGED connection
               /\ Upd(t, [th[t] EXCEPT !.pc = "cls_conn",
                                       !.closeOps = <<"channel.close">>,
                                       !.closeErrs = {}])
            \/ /\ \E kind \in FailKinds :
                     /\ connection' = FailConn(kind, connection)
                     /\ channel' = FailChan(kind, channel)
               /\ Upd(t, [th[t] EXCEPT !.pc = "cls_clear",
                                       !.closeOps = <<"channel.close">>,
                                       !.closeErrs = {"channel"}])
       ELSE /\ UNCHANGED <<connection, channel>>
            /\ Upd(t, [th[t] EXCEPT !.pc = "cls_conn",
                                    !.closeOps = <<"channel.skip">>,
                                    !.closeErrs = {}])
    /\ UNCHANGED variant
    /\ UNCHANGED <<xvars, upvars>>

(* lines 66-70: channel.close() when a channel is held and not closed;     *)
(* it returns (the channel is closed) or raises (logged, line 70); then    *)
(* the second try block follows in either case                             *)
ClsChannel(t) ==
    /\ th[t].pc = "cls_chan"
    /\ IF channel = "open"
       THEN \/ /\ channel' = "closed"
               /\ UNCHANGED connection
               /\ Upd(t, [th[t] EXCEPT !.pc = "cls_conn",
                                       !.closeOps = <<"channel.close">>,
                                       !.closeErrs = {}])
            \/ /\ \E kind \in FailKinds :
                     /\ connection' = FailConn(kind, connection)
                     /\ channel' = FailChan(kind, channel)
               /\ Upd(t, [th[t] EXCEPT !.pc = "cls_conn",
                                       !.closeOps = <<"channel.close">>,
                                       !.closeErrs = {"channel"}])
       ELSE /\ UNCHANGED <<connection, channel>>
            /\ Upd(t, [th[t] EXCEPT !.pc = "cls_conn",
                                    !.closeOps = <<"channel.skip">>,
                                    !.closeErrs = {}])
    /\ UNCHANGED variant
    /\ UNCHANGED <<xvars, upvars>>

(* lines 72-76: connection.close() when a connection is held and not       *)
(* closed; it returns (connection and its channel are closed) or raises    *)
(* (logged, line 76)                                                       *)
ClsConnection(t) ==
    /\ th[t].pc = "cls_conn"
    /\ IF connection = "open"
       THEN \/ /\ connection' = "closed"
               /\ channel' = IF channel = "None" THEN "None" ELSE "closed"
               /\ Upd(t, [th[t] EXCEPT
                             !.pc = "cls_clear",
                             !.closeOps = Append(@, "connection.close")])
            \/ /\ \E kind \in {"conn_lost", "other"} :
                     /\ connection' = FailConn(kind, connection)
                     /\ channel' = FailChan(kind, channel)
               /\ Upd(t, [th[t] EXCEPT
                             !.pc = "cls_clear",
                             !.closeOps = Append(@, "connection.close"),
                             !.closeErrs = @ \cup {"connection"}])
       ELSE /\ UNCHANGED <<connection, channel>>
            /\ Upd(t, [th[t] EXCEPT
                          !.pc = "cls_clear",
                          !.closeOps = Append(@, "connection.skip")])
    /\ UNCHANGED variant
    /\ UNCHANGED <<xvars, upvars>>

(* variant of ClsClear: the handles are kept *)
ClsClearKeepsHandles(t) ==
    /\ th[t].pc = "cls_clear"
    /\ Upd(t, CloseReturned(th[t]))
    /\ UNCHANGED <<variant, connection, channel>>
    /\ UNCHANGED <<xvars, upvars>>

(* lines 78-79: both handles are set to None; _close_connection returns *)
ClsClear(t) ==
    /\ th[t].pc = "cls_clear"
    /\ channel' = "None"
    /\ connection' = "None"
    /\ Upd(t, CloseReturned([th[t] EXCEPT !.opened = {},
                                          !.fresh = {},
                                          !.declared = FALSE]))
    /\ UNCHANGED variant
    /\ UNCHANGED <<xvars, upvars>>

(***************************************************************************)
(* manual-input-service publisher                                          *)
(***************************************************************************)

(* connect() as called at start-up: no teardown of existing handles *)
MStartConnect(t) ==
    /\ variant = "manual"
    /\ th[t].pc = "idle"
    /\ Upd(t, [NewCall(t, "m_connect", "con_open") EXCEPT
                   !.conCtx = "startup", !.nConnect = 1])
    /\ UNCHANGED <<variant, connection, channel>>
    /\ UNCHANGED <<xvars, upvars>>

(* publish_skill_event is entered (line 43) *)
MStartPublish(t) ==
    /\ variant = "manual"
    /\ th[t].pc = "idle"
    /\ \E ser \in BOOLEAN :
          Upd(t, [NewCall(t, "m_publish", "m_check") EXCEPT !.serial = ser])
    /\ UNCHANGED <<variant, connection, channel>>
    /\ UNCHANGED <<xvars, upvars>>

(* lines 44-45: only the connection handle decides whether to connect *)
MCheck(t) ==
    /\ th[t].pc = "m_check"
    /\ IF ManualNeedsConnect(connection)
       THEN Upd(t, [th[t] EXCEPT !.pc = "con_open", !.conCtx = "m_pub",
                                 !.nConnect = @ + 1])
       ELSE Upd(t, [th[t] EXCEPT !.pc = "pub_serialize"])
    /\ UNCHANGED <<variant, connection, channel>>
    /\ UNCHANGED <<xvars, upvars>>

(* close (lines 93-100): connection.close() when held and not closed;      *)
(* errors are logged; the handles are kept                                 *)
MClose(t) ==
    /\ variant = "manual"
    /\ th[t].pc = "idle"
    /\ IF connection = "open"
       THEN \/ /\ connection' = "closed"
               /\ channel' = IF channel = "None" THEN "None" ELSE "closed"
            \/ \E kind \in {"conn_lost", "other"} :
                  /\ connection' = FailConn(kind, connection)
                  /\ channel' = FailChan(kind, channel)
       ELSE UNCHANGED <<connection, channel>>
    /\ Upd(t, [NewCall(t, "m_close", "idle") EXCEPT !.ret = "ok"])
    /\ UNCHANGED variant
    /\ UNCHANGED <<xvars, upvars>>

(***************************************************************************)
(* PowerPointExtractor (input-service): texts and documents                *)
(***************************************************************************)

(* Bounds of the documents explored: the slides of a presentation and     *)
(* the shapes of all its slides together                                   *)
MaxSlides == 2
MaxShapes == 2

(* A text is a sequence of characters; " " stands for any whitespace *)
IsSpace(c) == c = " "

(* a shape without a text attribute, and a shape with the text s *)
NoTextShape == [has_text |-> FALSE, text |-> << >>]
TextShape(s) == [has_text |-> TRUE, text |-> s]

(* the shapes drawn: a picture, a blank text box, a one-word text and a    *)
(* two-word text with whitespace around and inside                         *)
ShapePool ==
    { NoTextShape,
      TextShape(<<" ">>),
      TextShape(<<"a">>),
      TextShape(<<" ", "b", " ", " ", "c", " ">>) }

SeqsUpTo(S, n) == UNION { [1..k -> S] : k \in 0..n }

(* presentation.slides: a sequence of slides, each a sequence of shapes;   *)
(* PresN(n, k): the presentations of n slides with at most k shapes        *)
RECURSIVE PresN(_, _)
PresN(n, k) ==
    IF n = 0 THEN { << >> }
    ELSE UNION { { <<sl>> \o rest : rest \in PresN(n - 1, k - Len(sl)) } :
                 sl \in SeqsUpTo(ShapePool, k) }

Presentations == UNION { PresN(n, MaxShapes) : n \in 0..MaxSlides }

(* The document "Q3 Review.pptx": slide 1 with the shape texts            *)
(* "Revenue Growth" and "+12% YoY", slide 2 with "Risks" and ""            *)
RevenueGrowth ==
    << "R", "e", "v", "e", "n", "u", "e", " ", "G", "r", "o", "w",
       "t", "h" >>

Plus12YoY ==
    << "+", "1", "2", "%", " ", "Y", "o", "Y" >>

Risks ==
    << "R", "i", "s", "k", "s" >>

Q3Review ==
    << << TextShape(RevenueGrowth), TextShape(Plus12YoY) >>,
       << TextShape(Risks), TextShape(<< >>) >> >>

(* what parsing some bytes can give: a presentation, "Rejected" when       *)
(* Presentation() raises, "Broken" when Presentation() returns but         *)
(* walking the slides raises                                               *)
Parsed(p) == [kind |-> "parsed", slides |-> p]
Rejected == [kind |-> "Rejected", slides |-> << >>]
Broken == [kind |-> "Broken", slides |-> << >>]
ParseOutcomes ==
    {Parsed(p) : p \in Presentations \cup {Q3Review}} \cup {Rejected, Broken}

(* no presentation parsed (yet) *)
NoPres == [kind |-> "none", slides |-> << >>]

(* str.strip() *)
RECURSIVE LStrip(_)
LStrip(s) ==
    IF s # << >> /\ IsSpace(Head(s)) THEN LStrip(Tail(s)) ELSE s

RECURSIVE RStrip(_)
RStrip(s) ==
    IF s # << >> /\ IsSpace(s[Len(s)])
    THEN RStrip(SubSeq(s, 1, Len(s) - 1)) ELSE s

Strip(s) == RStrip(LStrip(s))

(* " ".join(list) *)
RECURSIVE Join(_)
Join(list) ==
    IF list = << >> THEN << >>
    ELSE IF Len(list) = 1 THEN list[1]
    ELSE list[1] \o <<" ">> \o Join(Tail(list))

(* variant of SplitLen: len(s.split(" ")), one piece per separator *)
SplitLenOnSingleSpace(s) ==
    Cardinality({ i \in 1..Len(s) : IsSpace(s[i]) }) + 1

(* len(s.split()): the number of maximal runs of non-whitespace *)
SplitLen(s) ==
    Cardinality({ i \in 1..Len(s) :
                    /\ ~IsSpace(s[i])
                    /\ (i = 1 \/ IsSpace(s[i - 1])) })

(* variant of SlideText: a shape whose stripped text is empty is kept *)
RECURSIVE SlideTextKeepsEmpty(_)
SlideTextKeepsEmpty(shapes) ==
    IF shapes = << >> THEN << >>
    ELSE LET sh == Head(shapes)
         IN  (IF sh.has_text THEN << Strip(sh.text) >> ELSE << >>)
             \o SlideTextKeepsEmpty(Tail(shapes))

(* lines 52-58: the stripped texts of the shapes of a slide that have a    *)
(* text attribute and whose stripped text is not empty, in shape order     *)
RECURSIVE SlideText(_)
SlideText(shapes) ==
    IF shapes = << >> THEN << >>
    ELSE LET sh == Head(shapes)
         IN  (IF sh.has_text /\ Strip(sh.text) # << >>
              THEN << Strip(sh.text) >> ELSE << >>)
             \o SlideText(Tail(shapes))

(* lines 49, 58: all_text, the fragments of all slides in slide order *)
RECURSIVE AllText(_)
AllText(pres) ==
    IF pres = << >> THEN << >>
    ELSE SlideText(Head(pres)) \o AllText(Tail(pres))

(* variant of SlideRecord: slides numbered by the 0-based loop index *)
SlideRecordZeroBased(pres, i) ==
    [ slide_number |-> i - 1,
      text_content |-> SlideText(pres[i]),
      combined_text |-> Join(SlideText(pres[i])),
      shape_count |-> Len(pres[i]) ]

(* lines 60-65: the record of slide i *)
SlideRecord(pres, i) ==
    [ slide_number |-> i,
      text_content |-> SlideText(pres[i]),
      combined_text |-> Join(SlideText(pres[i])),
      shape_count |-> Len(pres[i]) ]

(* _extract_pptx_content, lines 44-86, of a parsed presentation.           *)
(* processing_time_ms and extraction_timestamp (wall clock) are left out;  *)
(* size names the bytes whose len() is file_size_bytes.                    *)
ExtractPptx(pres, fname, size) ==
    [ filename |-> fname,
      file_size_bytes |-> size,
      slide_count |-> Len(pres),
      slides |-> [i \in 1..Len(pres) |-> SlideRecord(pres, i)],
      all_text_combined |-> Join(AllText(pres)),
      word_count |-> SplitLen(Join(AllText(pres))),
      character_count |-> Len(Join(AllText(pres))),
      metadata |-> [ total_slides |-> Len(pres),
                     has_content |-> Len(AllText(pres)) > 0,
                     extractor_version |-> "python-pptx-0.6.21",
                     file_format |-> "pptx",
                     error |-> "none" ] ]

(* variant of TagConverted: the metadata is rebuilt around the two tags *)
TagConvertedRebuilt(content) ==
    [content EXCEPT !.metadata =
        [ total_slides |-> 0, has_content |-> FALSE,
          extractor_version |-> "libreoffice + python-pptx",
          file_format |-> "ppt", error |-> "none" ]]

(* _extract_ppt_content, lines 118-119: the two tags set on the result *)
TagConverted(content) ==
    [content EXCEPT !.metadata.file_format = "ppt",
                    !.metadata.extractor_version = "libreoffice + python-pptx"]

(* variant of EmptyContent: the metadata of the native path is kept *)
EmptyContentNativeMetadata(fname, size) ==
    [ filename |-> fname,
      file_size_bytes |-> size,
      slide_count |-> 0,
      slides |-> << >>,
      all_text_combined |-> << >>,
      word_count |-> 0,
      character_count |-> 0,
      metadata |-> [ total_slides |-> 0,
                     has_content |-> FALSE,
                     extractor_version |-> "python-pptx-0.6.21",
                     file_format |-> "ppt",
                     error |-> "none" ] ]

(* _extract_ppt_fallback, lines 195-212: the empty content *)
EmptyContent(fname, size) ==
    [ filename |-> fname,
      file_size_bytes |-> size,
      slide_count |-> 0,
      slides |-> << >>,
      all_text_combined |-> << >>,
      word_count |-> 0,
      character_count |-> 0,
      metadata |-> [ total_slides |-> 0,
                     has_content |-> FALSE,
                     extractor_version |-> "fallback",
                     file_format |-> "ppt",
                     error |-> "Legacy .ppt format requires LibreOffice for full extraction" ] ]

NoResult == [none |-> TRUE]

(* the filenames drawn, and Path(filename).suffix.lower() (line 23) *)
Filenames ==
    { "deck.pptx", "deck.PPTX", "deck.ppt", "deck.PPT", "deck.pdf", "deck",
      "Q3 Review.pptx" }

SuffixLower(f) ==
    CASE f \in {"deck.pptx", "deck.PPTX", "Q3 Review.pptx"} -> ".pptx"
      [] f \in {"deck.ppt", "deck.PPT"}   -> ".ppt"
      [] f = "deck.pdf"                   -> ".pdf"
      [] OTHER                            -> ""

(***************************************************************************)
(* PowerPointExtractor (input-service): extract_content                    *)
(***************************************************************************)

(* no exception *)
NoError == [type |-> "none", cause |-> "none"]

(* variant of WrapError: the ValueError is raised with a fixed message *)
WrapErrorFixedMessage(e) == [type |-> "ValueError", cause |-> "none"]

(* lines 32-34: whatever was raised inside extract_content is replaced by  *)
(* a ValueError whose message ends with str(e) of the error caught         *)
WrapError(e) == [type |-> "ValueError", cause |-> e]

IdleExtract ==
    [ pc        |-> "x_idle",
      filename  |-> "none",    \* the filename argument
      temp_dir  |-> "None",    \* None, or the directory: "exists"/"removed"
      rmtree    |-> "none",    \* shutil.rmtree (line 134): "ok" or "failed"
      pptx_path |-> "None",    \* what _convert_ppt_to_pptx returned
      stages    |-> << >>,     \* stages of the legacy chain entered, in order
      producer  |-> "none",    \* the stage that built the returned content
      convLog   |-> << >>,     \* outcomes of the converter probe and run
      convRead  |-> FALSE,     \* the converted file was read (line 114)
      convPres  |-> NoPres,    \* what the converted bytes parse to
      origPres  |-> NoPres,    \* what the original bytes parse to
      result    |-> NoResult,  \* the ExtractedContent built
      error     |-> NoError,   \* the exception extract_content raised
      ret       |-> "none" ]   \* then "returned" or "raised"

(* variant of FallbackEntry: the fallback builds the empty content        *)
(* without trying the original bytes                                       *)
FallbackEntrySkipsDirect == "f_empty"

(* the first step of _extract_ppt_fallback (lines 180-185), entered from   *)
(* lines 123 and 128                                                       *)
FallbackEntry == "f_parse"

(* variant of DirectParseFailed: the parse error is re-raised *)
DirectParseFailedRaises == "l_raise"

(* lines 187-188, `except: pass`: on to the empty content *)
DirectParseFailed == "f_empty"

(* extract_content is called *)
XStart ==
    /\ ex.pc = "x_idle"
    /\ \E f \in Filenames :
          ex' = [IdleExtract EXCEPT !.pc = "x_dispatch", !.filename = f]
    /\ UNCHANGED <<pubvars, upvars>>

(* lines 23-30: dispatch on the lower-cased suffix; an unsupported suffix  *)
(* raises ValueError, re-raised by lines 32-34                             *)
XDispatch ==
    /\ ex.pc = "x_dispatch"
    /\ ex' = CASE SuffixLower(ex.filename) = ".pptx" ->
                    [ex EXCEPT !.pc = "n_parse"]
               [] SuffixLower(ex.filename) = ".ppt" ->
                    [ex EXCEPT !.pc = "l_mkdtemp",
                               !.stages = <<"conversion">>]
               [] OTHER ->
                    [ex EXCEPT !.pc = "x_idle", !.ret = "raised",
                               !.error = WrapError("Unsupported file format")]
    /\ UNCHANGED <<pubvars, upvars>>

(* line 26, _extract_pptx_content on the original bytes: the content, or   *)
(* the parse error re-raised by lines 91-93 and wrapped by lines 32-34     *)
XNativeParse ==
    /\ ex.pc = "n_parse"
    /\ \E o \in ParseOutcomes :
          ex' = IF o.kind = "parsed"
                THEN [ex EXCEPT !.pc = "x_idle", !.ret = "returned",
                                !.origPres = o, !.producer = "native",
                                !.result = ExtractPptx(o.slides, ex.filename,
                                                       "file_content")]
                ELSE [ex EXCEPT !.pc = "x_idle", !.ret = "raised",
                                !.origPres = o,
                                !.error = WrapError(o.kind)]
    /\ UNCHANGED <<pubvars, upvars>>

(* line 101: tempfile.mkdtemp(); on error lines 125-128 go to the fallback *)
LMkdtemp ==
    /\ ex.pc = "l_mkdtemp"
    /\ \/ ex' = [ex EXCEPT !.pc = "l_write", !.temp_dir = "exists"]
       \/ ex' = [ex EXCEPT !.pc = FallbackEntry]
    /\ UNCHANGED <<pubvars, upvars>>

(* lines 104-106: the .ppt bytes are written into the directory *)
LWrite ==
    /\ ex.pc = "l_write"
    /\ \/ ex' = [ex EXCEPT !.pc = "l_probe"]
       \/ ex' = [ex EXCEPT !.pc = FallbackEntry]
    /\ UNCHANGED <<pubvars, upvars>>

(* lines 143-146, `libreoffice --version`: exit 0, or not installed        *)
(* (FileNotFoundError), timeout, non-zero exit: lines 170-175 return None  *)
LProbe ==
    /\ ex.pc = "l_probe"
    /\ \E o \in {"ok", "missing", "timeout", "nonzero"} :
          ex' = IF o = "ok"
                THEN [ex EXCEPT !.pc = "l_convert",
                                !.convLog = Append(@, o)]
                ELSE [ex EXCEPT !.pc = "l_branch",
                                !.convLog = Append(@, o)]
    /\ UNCHANGED <<pubvars, upvars>>

(* lines 157-168, the conversion run: exit 0 with the .pptx present        *)
(* returns its path; exit 0 without the file, a non-zero exit, a timeout   *)
(* or any other error return None                                          *)
LConvert ==
    /\ ex.pc = "l_convert"
    /\ \E o \in {"produced", "absent", "nonzero", "timeout", "error"} :
          ex' = [ex EXCEPT !.pc = "l_branch",
                           !.convLog = Append(@, o),
                           !.pptx_path = IF o = "produced"
                                         THEN "path" ELSE "None"]
    /\ UNCHANGED <<pubvars, upvars>>

(* line 111: `if pptx_path and os.path.exists(pptx_path)`, else line 123 *)
LBranch ==
    /\ ex.pc = "l_branch"
    /\ ex' = IF ex.pptx_path # "None"
             THEN [ex EXCEPT !.pc = "l_read"]
             ELSE [ex EXCEPT !.pc = FallbackEntry]
    /\ UNCHANGED <<pubvars, upvars>>

(* lines 113-114: the converted file is read; an error goes to line 125 *)
LRead ==
    /\ ex.pc = "l_read"
    /\ \/ ex' = [ex EXCEPT !.pc = "l_parse", !.convRead = TRUE]
       \/ ex' = [ex EXCEPT !.pc = FallbackEntry]
    /\ UNCHANGED <<pubvars, upvars>>

(* lines 117-120: _extract_pptx_content on the converted bytes and the     *)
(* two tags; a parse error goes to lines 125-128                           *)
LParseConverted ==
    /\ ex.pc = "l_parse"
    /\ \E o \in ParseOutcomes :
          ex' = IF o.kind = "parsed"
                THEN [ex EXCEPT !.pc = "l_cleanup", !.convPres = o,
                                !.producer = "conversion",
                                !.result = TagConverted(
                                    ExtractPptx(o.slides, ex.filename,
                                                "pptx_content"))]
                ELSE [ex EXCEPT !.pc = FallbackEntry, !.convPres = o]
    /\ UNCHANGED <<pubvars, upvars>>

(* line 185: Presentation() on the original bytes *)
FParse ==
    /\ ex.pc = "f_parse"
    /\ \E o \in ParseOutcomes :
          ex' = IF o = Rejected
                THEN [ex EXCEPT !.pc = DirectParseFailed, !.origPres = o,
                                !.stages = Append(@, "direct")]
                ELSE [ex EXCEPT !.pc = "f_extract", !.origPres = o,
                                !.stages = Append(@, "direct")]
    /\ UNCHANGED <<pubvars, upvars>>

(* line 186: _extract_pptx_content on the original bytes, which parse as   *)
(* on line 185; an error while walking the slides is swallowed (187-188)   *)
FExtract ==
    /\ ex.pc = "f_extract"
    /\ ex' = IF ex.origPres.kind = "parsed"
             THEN [ex EXCEPT !.pc = "l_cleanup", !.producer = "direct",
                             !.result = ExtractPptx(ex.origPres.slides,
                                                    ex.filename, "file_content")]
             ELSE [ex EXCEPT !.pc = DirectParseFailed]
    /\ UNCHANGED <<pubvars, upvars>>

(* lines 190-214: the empty content *)
FEmpty ==
    /\ ex.pc = "f_empty"
    /\ ex' = [ex EXCEPT !.pc = "l_cleanup", !.producer = "empty",
                        !.stages = Append(@, "empty"),
                        !.result = EmptyContent(ex.filename, "file_content")]
    /\ UNCHANGED <<pubvars, upvars>>

(* variant of LCleanup: an error of rmtree replaces the pending return *)
LCleanupRaises ==
    /\ ex.pc \in {"l_cleanup", "l_raise"}
    /\ \E removed \in BOOLEAN :
          ex' = [ex EXCEPT
                   !.pc = "x_idle",
                   !.ret = IF ex.pc = "l_raise"
                              \/ (ex.temp_dir = "exists" /\ ~removed)
                           THEN "raised" ELSE "returned",
                   !.rmtree = IF ex.temp_dir # "exists" THEN @
                              ELSE IF removed THEN "ok" ELSE "failed",
                   !.temp_dir = IF ex.temp_dir = "exists" /\ removed
                                THEN "removed" ELSE @]
    /\ UNCHANGED <<pubvars, upvars>>

(* lines 129-136, the finally block: rmtree of an existing temp_dir, its   *)
(* error logged; then the pending return (or exception) takes effect       *)
LCleanup ==
    /\ ex.pc \in {"l_cleanup", "l_raise"}
    /\ \E removed \in BOOLEAN :
          ex' = [ex EXCEPT
                   !.pc = "x_idle",
                   !.ret = IF ex.pc = "l_raise" THEN "raised" ELSE "returned",
                   !.rmtree = IF ex.temp_dir # "exists" THEN @
                              ELSE IF removed THEN "ok" ELSE "failed",
                   !.temp_dir = IF ex.temp_dir = "exists" /\ removed
                                THEN "removed" ELSE @]
    /\ UNCHANGED <<pubvars, upvars>>

(***************************************************************************)
(* upload_powerpoint (input-service main.py)                               *)
(***************************************************************************)

(* settings.ALLOWED_EXTENSIONS (config.py line 30, default) *)
ALLOWED_EXTENSIONS == {".pptx", ".ppt"}

(* the slice length of the first slide's preview (line 171) *)
PreviewLen == 200

NoResponse == [status |-> 0]

(* HTTPException(status_code = code) *)
ErrorResponse(code) == [status |-> code]

IdleUpload ==
    [ pc       |-> "u_idle",
      user_id  |-> "None",      \* the X-User-ID header
      filename |-> "None",      \* file.filename
      size     |-> "none",      \* len(file_content) against MAX_FILE_SIZE
      content  |-> NoResult,    \* what extract_content returned
      publish  |-> "none",      \* how publish_skill_event ended
      success  |-> FALSE,
      response |-> NoResponse ]

(* what extract_content can return for the filename: the content of a      *)
(* presentation (native, converted or parsed directly) or the empty one    *)
UploadContents(fname) ==
    { ExtractPptx(p, fname, "file_content") : p \in Presentations }
    \cup { TagConverted(ExtractPptx(p, fname, "pptx_content")) :
              p \in Presentations }
    \cup { EmptyContent(fname, "file_content") }

(* lines 170-174: the preview of the first slide *)
FirstSlidePreview(content) ==
    IF content.slides # << >> /\ content.slides[1].combined_text # << >>
    THEN LET t == content.slides[1].combined_text
         IN  SubSeq(t, 1, IF Len(t) < PreviewLen THEN Len(t) ELSE PreviewLen)
             \o <<".", ".", ".">>
    ELSE << "No text content found" >>

(* lines 159-176: the ProcessingResult *)
ProcessingResult(fname, content, success) ==
    [ status |-> 200,
      message |-> IF success THEN "processed and sent for skill analysis"
                  ELSE "processed but event publishing failed",
      filename |-> fname,
      slide_count |-> content.slide_count,
      event_published |-> success,
      preview |-> [ total_slides |-> content.slide_count,
                    word_count |-> content.word_count,
                    has_text_content |-> Len(content.all_text_combined) > 0,
                    first_slide_preview |-> FirstSlidePreview(content) ] ]

(* variant of PublishHandled: an exception of publish_skill_event reaches  *)
(* the handler's outer except and becomes a 500                            *)
PublishHandledAborts(u, outcome) ==
    IF outcome = "raised"
    THEN [u EXCEPT !.pc = "u_idle", !.publish = outcome,
                   !.response = ErrorResponse(500)]
    ELSE [u EXCEPT !.pc = "u_respond", !.publish = outcome,
                   !.success = (outcome = "True")]

(* lines 143-155: success is what publish_skill_event returned, and False  *)
(* when it raised                                                          *)
PublishHandled(u, outcome) ==
    [u EXCEPT !.pc = "u_respond", !.publish = outcome,
              !.success = (outcome = "True")]

(* a request arrives *)
UStart ==
    /\ up.pc = "u_idle"
    /\ \E uid \in {"None", "u1"}, f \in Filenames \cup {"None"},
          sz \in {"within", "too_large"} :
          up' = [IdleUpload EXCEPT !.pc = "u_validate", !.user_id = uid,
                                   !.filename = f, !.size = sz]
    /\ UNCHANGED <<pubvars, xvars>>

(* lines 101-128: user context, filename, extension and size *)
UValidate ==
    /\ up.pc = "u_validate"
    /\ up' = CASE up.user_id = "None" ->
                    [up EXCEPT !.pc = "u_idle", !.response = ErrorResponse(400)]
               [] up.filename = "None" ->
                    [up EXCEPT !.pc = "u_idle", !.response = ErrorResponse(400)]
               [] SuffixLower(up.filename) \notin ALLOWED_EXTENSIONS ->
                    [up EXCEPT !.pc = "u_idle", !.response = ErrorResponse(400)]
               [] up.size = "too_large" ->
                    [up EXCEPT !.pc = "u_idle", !.response = ErrorResponse(413)]
               [] OTHER -> [up EXCEPT !.pc = "u_extract"]
    /\ UNCHANGED <<pubvars, xvars>>

(* lines 133-140: extract_content returns the content, or raises: 422 *)
UExtract ==
    /\ up.pc = "u_extract"
    /\ \/ \E c \in UploadContents(up.filename) :
             up' = [up EXCEPT !.pc = "u_publish", !.content = c]
       \/ up' = [up EXCEPT !.pc = "u_idle", !.response = ErrorResponse(422)]
    /\ UNCHANGED <<pubvars, xvars>>

(* lines 143-155: publish_skill_event returns True or False, or raises *)
UPublish ==
    /\ up.pc = "u_publish"
    /\ \E outcome \in {"True", "False", "raised"} :
          up' = PublishHandled(up, outcome)
    /\ UNCHANGED <<pubvars, xvars>>

(* lines 157-183: the result is built and returned *)
URespond ==
    /\ up.pc = "u_respond"
    /\ up' = [up EXCEPT !.pc = "u_idle",
                        !.response = ProcessingResult(up.filename, up.content,
                                                      up.success)]
    /\ UNCHANGED <<pubvars, xvars>>

(***************************************************************************)
(* The publisher as one sequential caller                                  *)
(***************************************************************************)

Init ==
    /\ variant \in {"input", "manual"}
    /\ connection = "None"
    /\ channel = "None"
    /\ th = [t \in Threads |-> IF t = 1 THEN IdleThread ELSE OffThread]
    /\ ex = IdleExtract
    /\ up = IdleUpload

Next ==
    \E t \in Threads :
        \/ StartConnect(t) \/ StartPublish(t) \/ StartHealth(t) \/ StartClose(t)
        \/ PubAttempt(t) \/ PubSerialize(t) \/ PubPublishOk(t)
        \/ PubPublishFail(t) \/ PubHandler(t) \/ PubSleep(t)
        \/ EnsCheck(t) \/ EnsProbeOk(t) \/ EnsProbeFail(t)
        \/ ConBegin(t) \/ ConOpenOk(t) \/ ConOpenFail(t)
        \/ ConChannelOk(t) \/ ConChannelFail(t)
        \/ ConDeclareOk(t) \/ ConDeclareFail(t)
        \/ ClsChannel(t) \/ ClsConnection(t) \/ ClsClear(t)
        \/ MStartConnect(t) \/ MStartPublish(t) \/ MCheck(t) \/ MClose(t)

vars == <<pubvars, xvars, upvars>>

Spec == Init /\ [][Next]_vars

(***************************************************************************)
(* Two callers on the one publisher instance, broker available             *)
(***************************************************************************)

(* main.py line 35: every request works on the module-level instance, and  *)
(* the class holds no lock.  Two calls, publish_skill_event in thread 1    *)
(* and publish_skill_event or health_check in thread 2, interleave step    *)
(* by step.  The broker accepts everything: an operation fails only for    *)
(* the state of the handle it is called on (absent, or closed by the       *)
(* other call).                                                            *)
InitRace ==
    /\ variant = "input"
    /\ connection = "None"
    /\ channel = "None"
    /\ th = [t \in Threads |-> IdleThread]
    /\ ex = IdleExtract
    /\ up = IdleUpload

HandlesOpen == connection = "open" /\ channel = "open"

(* The race is followed until MaxRaceFailures operations have failed.      *)
(* Within that bound the connection is never cleared between the check of  *)
(* line 51 and the probe of line 58, so the probe always succeeds.         *)
MaxRaceFailures == 1

RaceFailures == Len(th[1].failLog) + Len(th[2].failLog)

NextRace ==
    \E t \in Threads :
        \/ StartPublish(t) /\ th[t].op = "none" /\ th'[t].serial
        \/ StartHealth(t) /\ th[t].op = "none" /\ t = 2
        \/ PubAttempt(t) \/ PubSerialize(t) \/ PubPublishOk(t)
        \/ PubPublishFail(t) /\ ~HandlesOpen
                             /\ RaceFailures' <= MaxRaceFailures
        \/ PubHandler(t) \/ PubSleep(t)
        \/ EnsCheck(t) \/ EnsProbeOk(t)
        \/ ConBegin(t) \/ ConOpenOk(t)
        \/ ConChannelOk(t)
        \/ ConChannelFail(t) /\ connection # "open" /\ UNCHANGED connection
                             /\ RaceFailures' <= MaxRaceFailures
        \/ ConDeclareOk(t)
        \/ ConDeclareFail(t) /\ ~HandlesOpen
                             /\ UNCHANGED <<connection, channel>>
                             /\ RaceFailures' <= MaxRaceFailures
        \/ ClsChannel(t) /\ th'[t].closeErrs = {}
        \/ ClsConnection(t) /\ th'[t].closeErrs = {}
        \/ ClsClear(t)

SpecRace == InitRace /\ [][NextRace]_vars

(***************************************************************************)
(* A publish call while the broker is available, after arbitrary failures  *)
(***************************************************************************)

(* publish_skill_event is entered (line 87) with a serializable payload,   *)
(* in whatever state earlier operations left the handles, and for the      *)
(* length of the call the broker accepts every new connection, channel,    *)
(* declaration and publish.  Operations on handles assigned before the     *)
(* call may still fail.                                                    *)
StartPublishBrokerUp(t) ==
    /\ variant = "input"
    /\ th[t].pc = "idle"
    /\ Upd(t, [NewCall(t, "publish", "pub_attempt") EXCEPT !.good = TRUE])
    /\ UNCHANGED <<variant, connection, channel>>
    /\ UNCHANGED <<xvars, upvars>>

InitRecover ==
    /\ variant = "input"
    /\ connection = "None"
    /\ channel = "None"
    /\ th = [t \in Threads |-> IF t = 1 THEN IdleThread ELSE OffThread]
    /\ ex = IdleExtract
    /\ up = IdleUpload

(* the steps by which a running call goes on *)
Continue(t) ==
    \/ PubAttempt(t) \/ PubSerialize(t) \/ PubPublishOk(t)
    \/ PubPublishFail(t) /\ (th[t].good => "channel" \notin th[t].fresh)
    \/ PubHandler(t) \/ PubSleep(t)
    \/ EnsCheck(t) \/ EnsProbeOk(t)
    \/ EnsProbeFail(t) /\ (th[t].good => "connection" \notin th[t].fresh)
    \/ ConBegin(t) \/ ConOpenOk(t)
    \/ ConOpenFail(t) /\ ~th[t].good
    \/ ConChannelOk(t)
    \/ ConChannelFail(t) /\ ~th[t].good
    \/ ConDeclareOk(t)
    \/ ConDeclareFail(t) /\ ~th[t].good
    \/ ClsChannel(t) \/ ClsConnection(t) \/ ClsClear(t)

NextRecover ==
    \E t \in Threads :
        \/ StartConnect(t) \/ StartPublish(t) \/ StartHealth(t) \/ StartClose(t)
        \/ StartPublishBrokerUp(t)
        \/ Continue(t)

(* a call that has started runs on: it is ordinary sequential code, and    *)
(* time.sleep (line 153) returns                                           *)
SpecRecover ==
    InitRecover /\ [][NextRecover]_vars /\ WF_vars(\E t \in Threads : Continue(t))

(***************************************************************************)
(* The extractor: calls of extract_content, one after the other            *)
(***************************************************************************)

InitExtract ==
    /\ variant = "input"
    /\ connection = "None"
    /\ channel = "None"
    /\ th = [t \in Threads |-> OffThread]
    /\ ex = IdleExtract
    /\ up = IdleUpload

NextExtract ==
    \/ XStart \/ XDispatch \/ XNativeParse
    \/ LMkdtemp \/ LWrite \/ LProbe \/ LConvert \/ LBranch \/ LRead
    \/ LParseConverted \/ FParse \/ FExtract \/ FEmpty \/ LCleanup

SpecExtract == InitExtract /\ [][NextExtract]_vars

(***************************************************************************)
(* The upload handler: requests, one after the other                       *)
(***************************************************************************)

NextUpload == UStart \/ UValidate \/ UExtract \/ UPublish \/ URespond

SpecUpload == InitExtract /\ [][NextUpload]_vars

(***************************************************************************)
(* Properties of publish_skill_event                                       *)
(***************************************************************************)

(* the call of thread t has returned *)
Returned(t, o) == th[t].op = o /\ th[t].pc = "idle"

(* the steps at which the broker (not the payload) made an attempt fail *)
BrokerSites == {"connect", "channel", "declare", "publish"}

(* C1: in both service variants publish_skill_event never raises; it       *)
(* returns True exactly when one attempt's basic_publish returned, and     *)
(* False otherwise.                                                        *)
C1_PublishNeverRaises ==
    \A t \in Threads :
        /\ th[t].op \in {"publish", "m_publish"} => th[t].ret # "raised"
        /\ Returned(t, "publish") \/ Returned(t, "m_publish") =>
              /\ th[t].ret \in {"true", "false"}
              /\ (th[t].ret = "true") <=> (th[t].nPubOk = 1)

(* C1 witness: an input-service call that failed at different steps on     *)
(* its attempts and returned False                                         *)
C1_Witness ==
    /\ Returned(1, "publish") /\ th[1].ret = "false"
    /\ Len(th[1].failLog) = max_retries
    /\ th[1].failLog[1] = "connect"
    /\ th[1].failLog[2] = "declare"
    /\ th[1].failLog[3] = "publish"

(* C2: one call makes at most max_retries attempts, each one               *)
(* _ensure_connection followed by at most one basic_publish; the first     *)
(* basic_publish that returns ends the call with True, so nothing of the   *)
(* call runs after it and at most one basic_publish succeeds.              *)
C2_AttemptsBounded ==
    \A t \in Threads :
        th[t].op = "publish" =>
            /\ th[t].attempt < max_retries
            /\ th[t].nEnsure <= max_retries
            /\ th[t].nEnsure =
                  IF th[t].pc = "pub_attempt"
                  THEN th[t].attempt ELSE th[t].attempt + 1
            /\ th[t].nPublish <= th[t].nEnsure
            /\ th[t].nPubOk <= 1
            /\ th[t].nPubOk = 1 =>
                  /\ th[t].pc = "idle" /\ th[t].ret = "true"
                  /\ Len(th[t].waits) = th[t].attempt
                  /\ th[t].nTeardown = th[t].attempt

(* C2 witness: the second attempt's basic_publish returned after the       *)
(* first attempt's basic_publish had raised                                *)
C2_Witness ==
    /\ Returned(1, "publish") /\ th[1].ret = "true"
    /\ th[1].attempt = 1 /\ th[1].nPublish = 2 /\ th[1].nPubOk = 1

(* C3 (as claimed): after every failed attempt the connection is torn      *)
(* down before anything else happens, so an attempt that follows a failed  *)
(* attempt starts with both handles None.                                  *)
C3_TornDownAfterEveryFailure ==
    \A t \in Threads :
        variant = "input" /\ th[t].dirty =>
            /\ \/ th[t].pc = "pub_handler"
               \/ /\ th[t].pc \in {"cls_chan", "cls_conn", "cls_clear"}
                  /\ th[t].clsCtx = "handler"
            /\ th[t].pc = "ens_check" =>
                  connection = "None" /\ channel = "None"

(* C4 (as claimed): when the broker made all max_retries attempts fail,    *)
(* the call returned False and both handles are None on return.            *)
C4_ExhaustedLeavesTornDown ==
    \A t \in Threads :
        /\ Returned(t, "publish")
        /\ Len(th[t].failLog) = max_retries
        /\ \A i \in 1..max_retries : th[t].failLog[i] \in BrokerSites
        => /\ th[t].ret = "false"
           /\ connection = "None" /\ channel = "None"

Legacy == ex.filename # "none" /\ SuffixLower(ex.filename) = ".ppt"

(* extract_content has returned or raised *)
Finished == ex.pc = "x_idle" /\ ex.ret # "none"

(* the bytes were refused by the native parser *)
Refused(pres) == pres.kind \in {"Rejected", "Broken"}

(* C7: for a .ppt document extract_content raises nothing and returns an   *)
(* ExtractedContent, whatever the outcome of each step of the chain.       *)
C7_LegacyNeverRaises ==
    Legacy =>
        /\ ex.ret # "raised"
        /\ ex.pc # "l_raise"
        /\ Finished =>
              /\ ex.ret = "returned"
              /\ ex.producer \in {"conversion", "direct", "empty"}
              /\ ex.result # NoResult
              /\ ex.result.slide_count = Len(ex.result.slides)

(* C7 witness: the converter produced a file, the parser refused both the  *)
(* converted and the original bytes, and the call returned                 *)
C7_Witness ==
    /\ Legacy /\ Finished /\ ex.ret = "returned"
    /\ ex.convLog = <<"ok", "produced">>
    /\ ex.convPres = Rejected /\ ex.origPres = Rejected

(* C8: the stages run in the order conversion, direct parse, empty         *)
(* content; the direct parse only after the conversion gave no content,    *)
(* the empty content only after both failed; nothing runs after a stage    *)
(* gave content, and the content returned is that stage's.                 *)
C8_StagesInOrder ==
    Legacy =>
        /\ ex.stages \in { << >>,
                           <<"conversion">>,
                           <<"conversion", "direct">>,
                           <<"conversion", "direct", "empty">> }
        /\ ex.pc \notin {"x_idle", "x_dispatch"} => ex.stages # << >>
        /\ Len(ex.stages) >= 2 =>
              /\ ex.convPres.kind # "parsed"
              /\ ex.producer # "conversion"
        /\ Len(ex.stages) = 3 =>
              /\ Refused(ex.origPres)
              /\ ex.producer \in {"none", "empty"}
        /\ ex.producer # "none" =>
              /\ ex.producer = ex.stages[Len(ex.stages)]
              /\ ex.pc \in {"l_cleanup", "x_idle"}
              /\ ex.result =
                    CASE ex.producer = "conversion" ->
                           TagConverted(ExtractPptx(ex.convPres.slides,
                                                    ex.filename, "pptx_content"))
                      [] ex.producer = "direct" ->
                           ExtractPptx(ex.origPres.slides, ex.filename,
                                       "file_content")
                      [] OTHER -> EmptyContent(ex.filename, "file_content")

(* C8 witness: the conversion timed out and the direct parse of the        *)
(* original bytes gave the returned content                                *)
C8_Witness ==
    /\ Legacy /\ Finished
    /\ ex.convLog = <<"ok", "timeout">>
    /\ ex.stages = <<"conversion", "direct">>
    /\ ex.producer = "direct"
    /\ ex.result.slide_count = 2

(* C9: no converter installed and original bytes the parser refuses give,  *)
(* without raising, the empty content: no slides, empty text, word count   *)
(* 0, has_content false, extractor 'fallback' and an error note.           *)
C9_EmptyFallback ==
    Legacy /\ Finished /\ ex.convLog = <<"missing">> /\ Refused(ex.origPres)
    => /\ ex.ret = "returned"
       /\ ex.result.slide_count = 0
       /\ ex.result.slides = << >>
       /\ ex.result.all_text_combined = << >>
       /\ ex.result.word_count = 0
       /\ ex.result.metadata.has_content = FALSE
       /\ ex.result.metadata.extractor_version = "fallback"
       /\ ex.result.metadata.error # "none"

(* C9 witness: such a call has returned *)
C9_Witness ==
    /\ Legacy /\ Finished
    /\ ex.convLog = <<"missing">> /\ ex.origPres = Rejected
    /\ ex.producer = "empty"

(* C10: when the conversion succeeded (the converted file was produced,    *)
(* read and parsed), the content returned is the native extraction of the  *)
(* converted bytes in every field but the two tags file_format and         *)
(* extractor_version.                                                      *)
C10_ConversionMatchesNative ==
    Legacy /\ Finished /\ ex.convPres.kind = "parsed" =>
        LET native == ExtractPptx(ex.convPres.slides, ex.filename,
                                  "pptx_content")
        IN  /\ ex.producer = "conversion"
            /\ ex.result.slide_count = native.slide_count
            /\ ex.result.slides = native.slides
            /\ ex.result.all_text_combined = native.all_text_combined
            /\ ex.result.word_count = native.word_count
            /\ ex.result.character_count = native.character_count
            /\ ex.result.metadata.file_format = "ppt"
            /\ ex.result.metadata.extractor_version = "libreoffice + python-pptx"
            /\ ex.result =
                  [native EXCEPT
                     !.metadata.file_format = "ppt",
                     !.metadata.extractor_version = "libreoffice + python-pptx"]

(* C10 witness: a converted two-slide presentation with text was returned *)
C10_Witness ==
    /\ Legacy /\ Finished /\ ex.producer = "conversion"
    /\ ex.result.slide_count = 2
    /\ ex.result.word_count = 3
    /\ ex.result.metadata.has_content

(* the content built by the stage that produced the result *)
ProducedContent ==
    CASE ex.producer = "conversion" ->
           TagConverted(ExtractPptx(ex.convPres.slides, ex.filename,
                                    "pptx_content"))
      [] ex.producer \in {"direct", "native"} ->
           ExtractPptx(ex.origPres.slides, ex.filename, "file_content")
      [] ex.producer = "empty" -> EmptyContent(ex.filename, "file_content")
      [] OTHER -> NoResult

(* C11: a legacy call that created the temporary directory runs rmtree on  *)
(* it before extract_content returns, on every exit path; the directory    *)
(* stays only when rmtree itself failed, and that failure is not raised    *)
(* and does not change the content returned.                               *)
C11_TempDirReleased ==
    Legacy =>
        /\ ex.temp_dir = "removed" => ex.pc = "x_idle" /\ ex.rmtree = "ok"
        /\ Finished =>
              /\ ex.temp_dir = "None" => ex.rmtree = "none"
              /\ ex.temp_dir # "None" => ex.rmtree \in {"ok", "failed"}
              /\ ex.temp_dir = "exists" => ex.rmtree = "failed"
              /\ ex.ret = "returned"
              /\ ex.result = ProducedContent
              /\ ex.result # NoResult

(* C11 witness: the converted bytes failed to parse, the direct parse gave *)
(* the content, and the directory was removed before the return           *)
C11_Witness ==
    /\ Legacy /\ Finished /\ ex.temp_dir = "removed"
    /\ ex.convLog = <<"ok", "produced">>
    /\ ex.convPres = Broken
    /\ ex.producer = "direct"

(* C11 second case: the removal failed and converted content was returned *)
C11_WitnessRmtreeFailed ==
    /\ Legacy /\ Finished /\ ex.rmtree = "failed"
    /\ ex.producer = "conversion" /\ ex.ret = "returned"

(***************************************************************************)
(* Properties of extract_content over all filenames                        *)
(***************************************************************************)

(* the suffix dispatched on is the native one / is not handled at all *)
Native == ex.filename # "none" /\ SuffixLower(ex.filename) = ".pptx"
Unsupported ==
    ex.filename # "none" /\ SuffixLower(ex.filename) \notin {".pptx", ".ppt"}

(* C12, as stated: whenever extract_content raises, the document was       *)
(* dispatched to the native path and its parse failed.                     *)
C12_RaisesOnlyOnNativePath ==
    Finished /\ ex.ret = "raised" => Native /\ Refused(ex.origPres)

(* C12, amended: extract_content raises exactly when the native parse of   *)
(* a .pptx failed or the suffix is neither .pptx nor .ppt; what it raises  *)
(* is a ValueError carrying the text of the underlying error; in every     *)
(* other case it returns an ExtractedContent.                              *)
C12_RaisesNativeOrUnsupported ==
    Finished =>
        /\ ex.ret = "raised" <=>
              \/ Native /\ Refused(ex.origPres)
              \/ Unsupported
        /\ ex.ret = "raised" =>
              /\ ex.error.type = "ValueError"
              /\ ex.result = NoResult
              /\ Native => ex.error.cause = ex.origPres.kind
              /\ Unsupported =>
                    /\ ex.error.cause = "Unsupported file format"
                    /\ ex.origPres = NoPres
        /\ ex.ret # "raised" =>
              /\ ex.ret = "returned"
              /\ ex.error = NoError
              /\ ex.result # NoResult
              /\ ex.result.slide_count = Len(ex.result.slides)

(* C12 witness: the native parse of a .PPTX failed and the error raised    *)
(* carries its cause                                                       *)
C12_Witness ==
    /\ Finished /\ ex.ret = "raised"
    /\ ex.filename = "deck.PPTX"
    /\ ex.origPres = Rejected
    /\ ex.error = [type |-> "ValueError", cause |-> "Rejected"]

(***************************************************************************)
(* Properties of the extracted content                                     *)
(***************************************************************************)

(* a native-format document was parsed and its content returned *)
NativeReturned == Native /\ Finished /\ ex.ret = "returned"

(* the combined_text values of the slide records, in slide order *)
CombinedTexts(content) ==
    [i \in 1..Len(content.slides) |-> content.slides[i].combined_text]

IsNonEmpty(t) == t # << >>

Slide1Combined ==
    << "R", "e", "v", "e", "n", "u", "e", " ", "G", "r", "o", "w",
       "t", "h", " ", "+", "1", "2", "%", " ", "Y", "o", "Y" >>

Q3AllText ==
    << "R", "e", "v", "e", "n", "u", "e", " ", "G", "r", "o", "w",
       "t", "h", " ", "+", "1", "2", "%", " ", "Y", "o", "Y", " ",
       "R", "i", "s", "k", "s" >>

(* the extraction of "Q3 Review.pptx" has been returned *)
Q3Returned ==
    /\ Finished /\ ex.ret = "returned"
    /\ ex.filename = "Q3 Review.pptx"
    /\ ex.origPres = Parsed(Q3Review)

(* the fields of the scenario other than word_count *)
Q3Texts ==
    /\ ex.result.slide_count = 2
    /\ Len(ex.result.slides) = 2
    /\ ex.result.slides[1].text_content = <<RevenueGrowth, Plus12YoY>>
    /\ ex.result.slides[1].combined_text = Slide1Combined
    /\ ex.result.slides[2].text_content = <<Risks>>
    /\ ex.result.slides[2].combined_text = Risks
    /\ ex.result.slides[2].shape_count = 2
    /\ ex.result.all_text_combined = Q3AllText

(* C14, as stated: "Q3 Review.pptx" gives slide_count 2, the combined      *)
(* texts "Revenue Growth +12% YoY" and "Risks" (empty shape left out),     *)
(* all_text_combined "Revenue Growth +12% YoY Risks" and word_count 6.     *)
C14_Q3ReviewSixWords ==
    Q3Returned => Q3Texts /\ ex.result.word_count = 6

(* C14, amended: the same texts, and word_count 5, the five tokens         *)
(* Revenue, Growth, +12%, YoY, Risks.                                      *)
C14_Q3ReviewFiveWords ==
    Q3Returned =>
        /\ Q3Texts
        /\ ex.result.word_count = 5
        /\ ex.result.character_count = 29
        /\ ex.result.metadata.has_content

(* C14 witness: the extraction of the scenario's document was returned *)
C14_Witness ==
    /\ Q3Returned
    /\ ex.producer = "native"
    /\ ex.result.slides[2].text_content = <<Risks>>

(* the whitespace-delimited tokens of a text, scanned left to right *)
RECURSIVE Tokens(_)
Tokens(s) ==
    LET t == LStrip(s)
    IN  IF t = << >> THEN << >>
        ELSE LET n == CHOOSE k \in 1..(Len(t) + 1) :
                          /\ k = Len(t) + 1 \/ IsSpace(t[k])
                          /\ \A j \in 1..(k - 1) : ~IsSpace(t[j])
             IN  << SubSeq(t, 1, n - 1) >> \o Tokens(SubSeq(t, n, Len(t)))

(* C15: in the content returned by any path (native, conversion, direct    *)
(* parse, empty) word_count is the number of whitespace-delimited tokens   *)
(* of all_text_combined and character_count its length; an empty text     *)
(* has word_count 0.                                                       *)
C15_CountsDerivedFromText ==
    Finished /\ ex.ret = "returned" =>
        /\ ex.producer \in {"native", "conversion", "direct", "empty"}
        /\ ex.result.word_count = Len(Tokens(ex.result.all_text_combined))
        /\ ex.result.character_count = Len(ex.result.all_text_combined)
        /\ ex.result.all_text_combined = << >> => ex.result.word_count = 0

(* C15 witness: converted content whose text has a run of two spaces       *)
(* inside: three words in six characters                                   *)
C15_Witness ==
    /\ Finished /\ ex.ret = "returned" /\ ex.producer = "conversion"
    /\ ex.result.all_text_combined = <<"a", " ", "b", " ", " ", "c">>
    /\ ex.result.word_count = 3
    /\ ex.result.character_count = 6

(* C15 second case: the empty content of the last fallback *)
C15_WitnessEmpty ==
    /\ Finished /\ ex.ret = "returned" /\ ex.producer = "empty"
    /\ ex.result.all_text_combined = << >>
    /\ ex.result.word_count = 0

(***************************************************************************)
(* Properties of upload_powerpoint                                         *)
(***************************************************************************)

(* the request passed validation, extract_content returned, and the        *)
(* handler has answered                                                    *)
ExtractedAndAnswered ==
    /\ up.pc = "u_idle"
    /\ up.content # NoResult
    /\ up.response # NoResponse

(* C16: after validation and a successful extraction the handler returns   *)
(* the result (slide count, preview) whether publish_skill_event returned  *)
(* True, returned False or raised; event_published is true exactly when    *)
(* it returned True, and no publish failure gives an error response.       *)
C16_PublishDecoupled ==
    /\ up.content # NoResult /\ up.pc = "u_idle" => up.response # NoResponse
    /\ ExtractedAndAnswered =>
          /\ up.publish \in {"True", "False", "raised"}
          /\ up.response.status = 200
          /\ up.response.filename = up.filename
          /\ up.response.slide_count = up.content.slide_count
          /\ up.response.preview.total_slides = up.content.slide_count
          /\ up.response.preview.word_count = up.content.word_count
          /\ up.response.preview.has_text_content
                = (up.content.all_text_combined # << >>)
          /\ up.response.event_published = (up.publish = "True")

(* C16 witness: publish_skill_event raised and the result was returned     *)
(* with the flag off                                                       *)
C16_Witness ==
    /\ ExtractedAndAnswered
    /\ up.publish = "raised"
    /\ up.response.status = 200
    /\ up.response.slide_count = 2
    /\ ~up.response.event_published

(***************************************************************************)
(* Properties of _ensure_connection, health_check and close                *)
(***************************************************************************)

(* a handle is absent or reports closed *)
AbsentOrClosed(h) == h \in {"None", "closed"}

(* _ensure_connection has just returned normally: publish_skill_event is   *)
(* about to build the payload, or health_check has returned True           *)
EnsureReturnedNormally(t) ==
    \/ th[t].op = "publish" /\ th[t].pc = "pub_serialize"
    \/ th[t].op = "health" /\ th[t].pc = "idle" /\ th[t].ret = "true"

(* C17: _ensure_connection calls connect() when the connection or the      *)
(* channel handle is absent or closed; otherwise it runs the probe, keeps  *)
(* both handles when the probe succeeds and calls connect() when it        *)
(* fails.  When it returns normally both handles are held and open, and    *)
(* were opened by a connect() of this call or passed its probe.            *)
C17_EnsureConnection ==
    \A t \in Threads :
        LET me == th[t] IN
        /\ me.ensEntry # << >> =>
              IF AbsentOrClosed(me.ensEntry[1]) \/ AbsentOrClosed(me.ensEntry[2])
              THEN /\ me.ensProbe = "none"
                   /\ me.pc = "con_begin" \/ me.ensConnects >= 1
                   /\ me.ensConnects <= 2
              ELSE /\ me.pc = "ens_probe" \/ me.ensProbe \in {"ok", "failed"}
                   /\ me.ensProbe = "ok" => me.ensConnects = 0
                   /\ me.ensProbe = "failed" =>
                         /\ me.pc = "con_begin" \/ me.ensConnects = 1
                         /\ me.ensConnects <= 1
        /\ EnsureReturnedNormally(t) =>
              /\ connection = "open" /\ channel = "open"
              /\ \/ /\ me.ensConnects >= 1
                    /\ me.opened = {"connection", "channel"}
                 \/ /\ me.ensConnects = 0
                    /\ me.ensProbe = "ok"
                    /\ <<connection, channel>> = me.ensEntry

(* C17 witness: the probe failed, connect() reopened both handles and      *)
(* _ensure_connection returned to health_check                             *)
C17_Witness ==
    /\ EnsureReturnedNormally(1)
    /\ th[1].op = "health"
    /\ th[1].ensEntry = <<"open", "open">>
    /\ th[1].ensProbe = "failed"
    /\ th[1].ensConnects = 1
    /\ th[1].opened = {"connection", "channel"}

(* C17 second case: a closed channel beside an open connection on entry *)
C17_WitnessClosedChannel ==
    /\ EnsureReturnedNormally(1)
    /\ th[1].ensEntry = <<"open", "closed">>
    /\ th[1].ensConnects = 1

(* C18: health_check never raises, whatever the state it starts from and   *)
(* whatever the broker does; it returns True exactly when                  *)
(* _ensure_connection ended without error, and then both handles are held  *)
(* and open.                                                               *)
C18_HealthCheck ==
    \A t \in Threads :
        th[t].op = "health" =>
            /\ th[t].ret # "raised"
            /\ th[t].nEnsure = 1
            /\ th[t].pc = "idle" =>
                  /\ th[t].ret \in {"true", "false"}
                  /\ th[t].ret = "true" <=> th[t].failLog = << >>
                  /\ th[t].ret = "true" =>
                        /\ connection = "open" /\ channel = "open"
                        /\ \/ th[t].ensProbe = "ok"
                           \/ th[t].opened = {"connection", "channel"}
                  /\ th[t].ret = "false" =>
                        /\ Len(th[t].failLog) = 1
                        /\ th[t].failLog[1] \in BrokerSites
                        /\ th[t].ensConnects >= 1

(* C18 witness: from open handles the probe failed and the reconnect       *)
(* failed at exchange_declare; health_check returned False                 *)
C18_Witness ==
    /\ Returned(1, "health")
    /\ th[1].ret = "false"
    /\ th[1].ensEntry = <<"open", "open">>
    /\ th[1].failLog = <<"declare">>

(* C18 second case: True from a publisher that held no handles *)
C18_WitnessTrue ==
    /\ Returned(1, "health")
    /\ th[1].ret = "true"
    /\ th[1].ensEntry = <<"None", "None">>

(* C19: close() called twice in succession raises nothing; after the       *)
(* first call both handles are absent, and the second call leaves them     *)
(* absent and calls neither channel.close() nor connection.close().        *)
C19_CloseIdempotent ==
    \A t \in Threads :
        /\ th[t].op = "close" => th[t].ret # "raised"
        /\ Returned(t, "close") =>
              /\ th[t].ret = "ok"
              /\ connection = "None" /\ channel = "None"
        /\ th[t].op = "close" /\ th[t].prevClose =>
              /\ connection = "None" /\ channel = "None"
              /\ th[t].closeOps \in { << >>, <<"channel.skip">>,
                                     <<"channel.skip", "connection.skip">> }

(* C19 witness: the second of two close() calls has returned *)
C19_Witness ==
    /\ Returned(1, "close")
    /\ th[1].prevClose
    /\ th[1].ret = "ok"
    /\ th[1].closeOps = <<"channel.skip", "connection.skip">>

(* C19, the first call: from open handles both were closed, channel first *)
C19_WitnessFirstClose ==
    /\ Returned(1, "close")
    /\ ~th[1].prevClose
    /\ th[1].closeOps = <<"channel.close", "connection.close">>

(* C20: close() closes the channel first and then the connection; an       *)
(* error of channel.close() does not keep the connection step from         *)
(* running, no error of either step is raised, and both handles are        *)
(* cleared whatever the two steps did.                                     *)
C20_CloseBestEffort ==
    \A t \in Threads :
        th[t].op = "close" =>
            /\ th[t].ret # "raised"
            /\ th[t].pc = "cls_clear" \/ Returned(t, "close") =>
                  /\ Len(th[t].closeOps) = 2
                  /\ th[t].closeOps[1] \in {"channel.close", "channel.skip"}
                  /\ th[t].closeOps[2] \in {"connection.close", "connection.skip"}
                  /\ "channel" \in th[t].closeErrs
                        => th[t].closeOps[1] = "channel.close"
                  /\ "connection" \in th[t].closeErrs
                        => th[t].closeOps[2] = "connection.close"
            /\ Returned(t, "close") =>
                  /\ th[t].ret = "ok"
                  /\ connection = "None" /\ channel = "None"

(* C20 witness: channel.close() raised, connection.close() was still       *)
(* called and raised too, and close() returned with the handles cleared    *)
C20_Witness ==
    /\ Returned(1, "close")
    /\ th[1].closeOps = <<"channel.close", "connection.close">>
    /\ th[1].closeErrs = {"channel", "connection"}
    /\ connection = "None" /\ channel = "None"

(***************************************************************************)
(* Properties of the publisher over sequences of calls                     *)
(***************************************************************************)

(* C21: every attempt of one publish_skill_event call hands the same       *)
(* envelope to basic_publish: the timestamp and source_id of a retry are   *)
(* those of the first attempt.                                             *)
C21_SameEnvelopeEveryAttempt ==
    \A t \in Threads :
        \A i \in 1..Len(th[t].envelopes) :
            th[t].envelopes[i] = th[t].envelopes[1]


(* C23: one call of _ensure_connection calls connect() at most once, so a  *)
(* publish attempt makes at most one connection attempt and a publish      *)
(* call at most max_retries.                                               *)
C23_OneConnectPerEnsure ==
    \A t \in Threads :
        /\ th[t].ensConnects <= 1
        /\ th[t].op = "publish" => th[t].nConnect <= max_retries

(* C24: the manual-input-service publisher reconnects before publishing    *)
(* whenever publish is entered with the connection or the channel absent   *)
(* or closed: a publish call that made no connect() holds both handles     *)
(* open when it serializes and publishes.                                  *)
C24_ManualReconnects ==
    \A t \in Threads :
        (/\ th[t].op = "m_publish"
         /\ th[t].pc \in {"pub_serialize", "pub_publish"}
         /\ th[t].nConnect = 0)
            => HandlesOpen

NoOperationInProgress == \A t \in Threads : th[t].pc \in {"idle", "off"}

(* C25: whenever no operation of the input-service publisher is in         *)
(* progress, the connection and channel handles are both absent or both    *)
(* present.                                                                *)
C25_DisconnectedOrConnected ==
    (variant = "input" /\ NoOperationInProgress)
        => \/ connection = "None" /\ channel = "None"
           \/ connection # "None" /\ channel # "None"

(* C26: basic_publish is only issued on a channel on which a connect()     *)
(* completed, exchange declaration included.                               *)
C26_PublishOnDeclaredChannel ==
    \A t \in Threads :
        (/\ variant = "input"
         /\ th[t].pc = "pub_publish"
         /\ channel # "None")
            => th[t].declared

(* C27: the input-service publisher closes the open connection it holds    *)
(* before it drops the handle (lines 78-79) and before it opens a new      *)
(* one (line 32).                                                          *)
C27_ClosedBeforeDroppedOrReplaced ==
    [][variant = "input" =>
          /\ ~(connection = "open" /\ connection' = "None")
          /\ \A t \in Threads :
                (th[t].pc = "con_open" /\ th'[t].pc = "con_channel")
                    => connection # "open"]_vars

(* C28: a publish call during which the broker accepts new connections,    *)
(* declarations and publishes returns True within its max_retries          *)
(* attempts, whatever earlier operations and failures left behind and      *)
(* even if operations on the handles left over from before the call fail.  *)
C28_Recovers ==
    \A t \in Threads :
        /\ [](th[t].good =>
                /\ th[t].attempt < max_retries
                /\ th[t].ret # "false"
                /\ Len(th[t].failLog) < max_retries)
        /\ (th[t].good /\ th[t].pc # "idle")
              ~> (th[t].good /\ th[t].pc = "idle" /\ th[t].ret = "true")

(* the first attempt published on a leftover channel that passed the probe *)
(* and failed; the second attempt reconnected and published                *)
C28_Witness ==
    /\ th[1].good
    /\ th[1].pc = "idle"
    /\ th[1].ret = "true"
    /\ th[1].attempt = 1
    /\ th[1].failLog = <<"publish">>
    /\ th[1].nPublish = 2
    /\ th[1].fresh = {"connection", "channel"}

(***************************************************************************)
(* Two interleaved calls on one instance (SpecRace)                        *)
(***************************************************************************)

(* the call has passed _ensure_connection (line 90) and has not yet        *)
(* returned from basic_publish (lines 122-137)                             *)
PassedEnsure(me) == me.pc \in {"pub_serialize", "pub_publish"}

(* the positions inside _close_connection and connect()                    *)
InTeardownOrReconnect(me) ==
    me.pc \in {"cls_chan", "cls_conn", "cls_clear",
               "con_open", "con_channel", "con_declare"}

Other(t) == 3 - t

(* C22: with the broker available, a call leaves _ensure_connection with   *)
(* both handles open, and between that and its basic_publish the handles   *)
(* stop being open only by a teardown or reconnect step of the other call; *)
(* nothing excludes that step, and the attempt then fails.                 *)
C22_RaceOnHandles ==
    [][\A t \in Threads :
          /\ (~PassedEnsure(th[t]) /\ PassedEnsure(th'[t])) => HandlesOpen'
          /\ (PassedEnsure(th[t]) /\ HandlesOpen /\ ~HandlesOpen')
                 => /\ InTeardownOrReconnect(th[Other(t)])
                    /\ th'[Other(t)] # th[Other(t)]
                    /\ th'[t] = th[t]
          /\ (th[t].pc = "pub_publish" /\ th'[t].pc = "pub_handler")
                 => ~HandlesOpen]_vars

(* thread 1 passed _ensure_connection on its first attempt, thread 2's     *)
(* teardown cleared the channel, and thread 1's basic_publish failed       *)
C22_Witness ==
    /\ th[1].op = "publish"
    /\ th[1].pc = "pub_handler"
    /\ th[1].attempt = 0
    /\ th[1].failLog = <<"publish">>
    /\ th[1].nPublish = 1
    /\ th[2].op \in {"publish", "health"}
    /\ th[2].failLog = << >>
    /\ channel = "None"

====
